---- MODULE Spec2Model ----
(***************************************************************************)
(* Model of the WebsiteMonitor service (src/src/main.rs, src/src/config.rs) *)
(* main() is one sequential task; its position is pc.  Every external call *)
(* (configuration, state persistence, HTTP transport, notification         *)
(* service, clock) is an input drawn from a small set.                     *)
(***************************************************************************)
EXTENDS Integers, Naturals, Sequences, FiniteSets, TLC

(* ---------------------------- bounds ----------------------------------- *)
MaxUrls == 2          \* longest configured url list
MaxCycles == 2        \* loop iterations explored
MaxMs == 0            \* largest elapsed time (ms) a timer can show
MaxTime == 1          \* largest value of current_timestamp()
MaxStartCounter == 1  \* largest event_counter found in a persisted file

UrlNames == {"a", "b"}
HttpStatuses == {200, 500}
Times == 0..MaxMs

\* Option<T>
None == <<>>
Some(v) == <<v>>
is_some(o) == o # None
is_none(o) == o = None
unwrap_or(o, d) == IF o = None THEN d ELSE o[1]

(* ------------------------- state records -------------------------------- *)
NoState == [absent |-> TRUE]
NoFile == [absent |-> TRUE]
NoReport == [absent |-> TRUE]
NoNet == [absent |-> TRUE]

\* variant: the fresh state is built already marked active
get_initial_state_Active(config, t) ==
    [data |-> "",
     last_updated |-> t,
     event_counter |-> 0,
     is_active |-> TRUE,
     error_log |-> <<>>,
     debug_mode |-> config.debug_mode]

\* main.rs: AppState as built by get_initial_state
get_initial_state(config, t) ==
    [data |-> "",
     last_updated |-> t,
     event_counter |-> 0,
     is_active |-> FALSE,
     error_log |-> <<>>,
     debug_mode |-> config.debug_mode]

\* state files a previous run can have left behind
PreviousStates ==
    [data : {"Website Monitor Initialized"},
     last_updated : {0},
     event_counter : {MaxStartCounter},
     is_active : BOOLEAN,
     error_log : {<<"SendError">>},
     debug_mode : {FALSE}]

\* StatePersistence::save_state: the file after the call
save_state(st, file, ok) == IF ok THEN st ELSE file

\* variant: the error arm assigns a new one-entry log instead of pushing
update_state_ResetLog(st, t, ok) ==
    LET s1 == [st EXCEPT !.last_updated = t]
    IN IF ok THEN s1
       ELSE [s1 EXCEPT !.is_active = FALSE,
                       !.error_log = <<"GeneralError">>]

\* variant: a successful save marks the state active again
update_state_Reactivate(st, t, ok) ==
    LET s1 == [st EXCEPT !.last_updated = t]
    IN IF ok THEN [s1 EXCEPT !.is_active = TRUE]
       ELSE [s1 EXCEPT !.is_active = FALSE,
                       !.error_log = Append(@, "GeneralError")]

\* main.rs update_state: the in-memory state after the call
update_state(st, t, ok) ==
    LET s1 == [st EXCEPT !.last_updated = t]
    IN IF ok THEN s1
       ELSE [s1 EXCEPT !.is_active = FALSE,
                       !.error_log = Append(@, "GeneralError")]

(* ------------------------------ probe ----------------------------------- *)
\* what the transport can do to one GET
NetOutcomes ==
    { n \in [client : BOOLEAN, send : BOOLEAN, body : BOOLEAN,
             http : HttpStatuses, dns : Times, resp : Times, bodyt : Times] :
        /\ n.resp >= n.dns
        /\ (~n.client => ~n.send)
        /\ (~n.send => (~n.body /\ n.http = 200 /\ n.dns = 0 /\ n.resp = 0))
        /\ (~n.body => n.bodyt = 0) }

\* variant: a response with an error status (error_for_status) counts as a
\* failed request
check_website_health_StatusAware(n) ==
    IF n.client /\ n.send /\ n.http < 400
    THEN IF n.body
         THEN [status |-> "UP",
               dns_time_ms |-> Some(n.dns),
               response_time_ms |-> Some(n.resp),
               body_time_ms |-> Some(n.bodyt),
               error |-> None]
         ELSE [status |-> "DOWN",
               dns_time_ms |-> Some(n.dns),
               response_time_ms |-> Some(n.resp),
               body_time_ms |-> None,
               error |-> Some("body error")]
    ELSE [status |-> "DOWN",
          dns_time_ms |-> None,
          response_time_ms |-> None,
          body_time_ms |-> None,
          error |-> Some("request error")]

\* variant: the body-error arm also fills in body_time_ms
check_website_health_BodyTimeOnError(n) ==
    IF n.client /\ n.send
    THEN IF n.body
         THEN [status |-> "UP",
               dns_time_ms |-> Some(n.dns),
               response_time_ms |-> Some(n.resp),
               body_time_ms |-> Some(n.bodyt),
               error |-> None]
         ELSE [status |-> "DOWN",
               dns_time_ms |-> Some(n.dns),
               response_time_ms |-> Some(n.resp),
               body_time_ms |-> Some(n.bodyt),
               error |-> Some("body error")]
    ELSE [status |-> "DOWN",
          dns_time_ms |-> None,
          response_time_ms |-> None,
          body_time_ms |-> None,
          error |-> Some("request error")]

check_website_health(n) ==
    IF n.client
    THEN IF n.send
         THEN IF n.body
              THEN [status |-> "UP",
                    dns_time_ms |-> Some(n.dns),
                    response_time_ms |-> Some(n.resp),
                    body_time_ms |-> Some(n.bodyt),
                    error |-> None]
              ELSE [status |-> "DOWN",
                    dns_time_ms |-> Some(n.dns),
                    response_time_ms |-> Some(n.resp),
                    body_time_ms |-> None,
                    error |-> Some("body error")]
         ELSE [status |-> "DOWN",
               dns_time_ms |-> None,
               response_time_ms |-> None,
               body_time_ms |-> None,
               error |-> Some("request error")]
    ELSE [status |-> "DOWN",
          dns_time_ms |-> None,
          response_time_ms |-> None,
          body_time_ms |-> None,
          error |-> Some("client error")]

(* ------------------------------ report ---------------------------------- *)
\* the lines generate_report writes for one entry
Section(url, r) ==
    IF r.status = "UP"
    THEN [url |-> url, status |-> r.status,
          dns |-> unwrap_or(r.dns_time_ms, 0),
          resp |-> unwrap_or(r.response_time_ms, 0),
          body |-> unwrap_or(r.body_time_ms, 0),
          error |-> ""]
    ELSE [url |-> url, status |-> r.status,
          dns |-> -1, resp |-> -1, body |-> -1,
          error |-> unwrap_or(r.error, "Unknown error")]

\* variant: the UP branch is taken whenever a request timing was measured
CountsAsUp_ByTiming(r) == is_some(r.dns_time_ms)

\* true when the loop body of generate_report takes the UP branch
CountsAsUp(r) == r.status = "UP"

RECURSIVE ReportLoop(_, _, _)
\* the for loop of generate_report over the entries not yet visited
ReportLoop(results, todo, acc) ==
    IF todo = {} THEN acc
    ELSE LET url == CHOOSE u \in todo : TRUE
             r == results[url]
             acc1 == IF CountsAsUp(r)
                     THEN [acc EXCEPT !.sections = @ \cup {Section(url, r)},
                                      !.total_up = @ + 1]
                     ELSE [acc EXCEPT !.sections = @ \cup {Section(url, r)},
                                      !.total_down = @ + 1]
         IN ReportLoop(results, todo \ {url}, acc1)

generate_report(results) ==
    LET acc == ReportLoop(results, DOMAIN results,
                          [sections |-> {}, total_up |-> 0, total_down |-> 0])
    IN [sections |-> acc.sections,
        total |-> Cardinality(DOMAIN results),
        total_up |-> acc.total_up,
        total_down |-> acc.total_down]

\* the orders in which a HashMap iterator can yield the keys of a map
IterationOrders(keys) ==
    { o \in [1..Cardinality(keys) -> keys] :
        \A i, j \in 1..Cardinality(keys) : o[i] = o[j] => i = j }

RECURSIVE RenderLoop_StopAtDown(_, _, _)
\* variant: the DOWN branch leaves the for loop (break) after its entry
RenderLoop_StopAtDown(results, order, acc) ==
    IF order = <<>> THEN acc
    ELSE LET url == Head(order)
             r == results[url]
         IN IF CountsAsUp(r)
            THEN RenderLoop_StopAtDown(results, Tail(order),
                     [acc EXCEPT !.lines = Append(@, Section(url, r)),
                                 !.total_up = @ + 1])
            ELSE [acc EXCEPT !.lines = Append(@, Section(url, r)),
                             !.total_down = @ + 1]

RECURSIVE RenderLoop(_, _, _)
\* the for loop of generate_report when the iterator yields the keys in the
\* given order: the sections in the order they are written, and the counts
RenderLoop(results, order, acc) ==
    IF order = <<>> THEN acc
    ELSE LET url == Head(order)
             r == results[url]
             acc1 == IF CountsAsUp(r)
                     THEN [acc EXCEPT !.lines = Append(@, Section(url, r)),
                                      !.total_up = @ + 1]
                     ELSE [acc EXCEPT !.lines = Append(@, Section(url, r)),
                                      !.total_down = @ + 1]
         IN RenderLoop(results, Tail(order), acc1)

\* the text generate_report returns for one iteration order
render(results, order) ==
    LET acc == RenderLoop(results, order,
                          [lines |-> <<>>, total_up |-> 0, total_down |-> 0])
    IN [lines |-> acc.lines,
        total |-> Cardinality(DOMAIN results),
        total_up |-> acc.total_up,
        total_down |-> acc.total_down]

EmptyResults == [u \in {} |-> NoNet]

\* HashMap::insert
insert(results, url, r) ==
    [u \in (DOMAIN results) \cup {url} |-> IF u = url THEN r ELSE results[u]]

\* variant: the targets are visited from the last to the first
IterPosition_Reversed(i, n) == n - i + 1

\* for url in urls: the list position visited in the i-th turn of the loop
IterPosition(i, n) == i

(* ------------------------------ state ----------------------------------- *)
VARIABLES
    pc,           \* position of main()
    config,       \* AppConfig returned by get_config
    state,        \* AppState held by main()
    file,         \* content of the state file
    settings,     \* Settings returned by load_settings
    idx,          \* position of run_health_checks in urls
    net,          \* transport outcome of the probe being awaited
    result,       \* HealthCheckResult of the probe just finished
    results,      \* HashMap built by run_health_checks
    report,       \* String returned by generate_report
    secure_mail,  \* body held by the EmailSecure object
    sends,        \* history: send attempts so far
    now,          \* last value of current_timestamp()
    start_counter,  \* history: event_counter when load_initial_state returned
    cycle,          \* history: probe passes started
    probes,         \* history: probes made so far
    probed,         \* history: list positions probed in the current pass
    cycle_sends,    \* history: send attempts of the current iteration
    last_save,      \* history: the save_state call of the last step
    saves_ok,       \* history: no save_state call has failed so far
    exit_reason     \* history: why the process ended

vars == <<pc, config, state, file, settings, idx, net, result, results, report,
          secure_mail, sends, now, start_counter, cycle, probes, probed,
          cycle_sends,
          last_save, saves_ok, exit_reason>>

NoSave == [outcome |-> "none", site |-> "none", pre_len |-> 0]

UrlLists == UNION { [1..n -> UrlNames] : n \in 0..MaxUrls }

Init ==
    /\ pc = "get_config"
    /\ config = [absent |-> TRUE]
    /\ state = NoState
    /\ file \in {NoFile} \cup PreviousStates
    /\ settings = [absent |-> TRUE]
    /\ idx = 0
    /\ net = NoNet
    /\ result = NoNet
    /\ results = EmptyResults
    /\ report = NoReport
    /\ secure_mail = NoReport
    /\ sends = 0
    /\ now = 0
    /\ start_counter = 0
    /\ cycle = 0
    /\ probes = 0
    /\ probed = <<>>
    /\ cycle_sends = 0
    /\ last_save = NoSave
    /\ saves_ok = TRUE
    /\ exit_reason = "none"


(* --------------------------- persistence -------------------------------- *)
\* a call update_state(&mut st, path): clock read, save_state, error branch
Persist(st, t, ok, site) ==
    /\ state' = update_state(st, t, ok)
    /\ file' = save_state([st EXCEPT !.last_updated = t], file, ok)
    /\ now' = t
    /\ last_save' = [outcome |-> IF ok THEN "ok" ELSE "failed",
                     site |-> site,
                     pre_len |-> Len(st.error_log)]
    /\ saves_ok' = (saves_ok /\ ok)

NoPersist ==
    /\ last_save' = NoSave
    /\ UNCHANGED <<file, now, saves_ok>>

(* ------------------------------ startup --------------------------------- *)
\* config.rs get_config: AppConfig::new() fails -> std::process::exit(0)
GetConfig ==
    /\ pc = "get_config"
    /\ \E ok \in BOOLEAN, dbg \in BOOLEAN :
         IF ok
         THEN /\ config' = [debug_mode |-> dbg]
              /\ pc' = "load_initial_state"
              /\ exit_reason' = exit_reason
         ELSE /\ config' = config
              /\ pc' = "exited"
              /\ exit_reason' = "config"
    /\ NoPersist
    /\ UNCHANGED <<probed, state, settings, idx, net, result, results,
                   report,
                   secure_mail, sends, start_counter, cycle, probes, cycle_sends>>

\* main.rs load_initial_state
LoadInitialState ==
    /\ pc = "load_initial_state"
    /\ \E readable \in BOOLEAN, t \in now..MaxTime, ok \in BOOLEAN :
         IF file # NoFile /\ readable
         THEN /\ state' = file
              /\ NoPersist
         ELSE /\ state' = get_initial_state(config, t)
              /\ file' = save_state(state', file, ok)
              /\ now' = t
              /\ last_save' = [outcome |-> IF ok THEN "ok" ELSE "failed",
                               site |-> "load_initial_state",
                               pre_len |-> 0]
              /\ saves_ok' = (saves_ok /\ ok)
    /\ start_counter' = state'.event_counter
    /\ pc' = "load_settings"
    /\ UNCHANGED <<probed, config, settings, idx, net, result, results, report,
                   secure_mail, sends, cycle, probes, cycle_sends, exit_reason>>

\* main.rs lines 25-41: load_settings and its error arm
LoadSettings ==
    /\ pc = "load_settings"
    /\ \E ok \in BOOLEAN, urls \in UrlLists :
         IF ok
         THEN /\ settings' = [urls |-> urls]
              /\ state' = state
              /\ pc' = "configure_logging"
              /\ exit_reason' = exit_reason
         ELSE /\ settings' = settings
              /\ state' = [state EXCEPT !.error_log = Append(@, "InvalidFile")]
              /\ pc' = "exited"
              /\ exit_reason' = "settings"
    /\ NoPersist
    /\ UNCHANGED <<probed, config, idx, net, result, results, report,
                   secure_mail,
                   sends, start_counter, cycle, probes, cycle_sends>>

\* main.rs configure_logging
ConfigureLogging ==
    /\ pc = "configure_logging"
    /\ \E t \in now..MaxTime, ok \in BOOLEAN :
         Persist([state EXCEPT !.debug_mode = config.debug_mode], t, ok,
                 "update_state")
    /\ pc' = "activate"
    /\ UNCHANGED <<probed, config, settings, idx, net, result, results, report,
                   secure_mail, sends, start_counter, cycle, probes,
                   cycle_sends, exit_reason>>

\* variant: is_active is set only when the logging persist had succeeded
Activate_KeepFlag ==
    /\ pc = "activate"
    /\ \E t \in now..MaxTime, ok \in BOOLEAN :
         Persist([state EXCEPT !.is_active = (last_save.outcome # "failed"),
                               !.data = "Website Monitor Initialized"],
                 t, ok, "update_state")
    /\ pc' = "check"
    /\ idx' = 1
    /\ results' = EmptyResults
    /\ cycle' = 1
    /\ cycle_sends' = 0
    /\ probed' = <<>>
    /\ UNCHANGED <<config, settings, net, result, report, secure_mail, sends,
                   start_counter, probes, exit_reason>>

\* main.rs lines 52-55, then the first entry of the loop
Activate ==
    /\ pc = "activate"
    /\ \E t \in now..MaxTime, ok \in BOOLEAN :
         Persist([state EXCEPT !.is_active = TRUE,
                               !.data = "Website Monitor Initialized"],
                 t, ok, "update_state")
    /\ pc' = "check"
    /\ idx' = 1
    /\ results' = EmptyResults
    /\ cycle' = 1
    /\ cycle_sends' = 0
    /\ probed' = <<>>
    /\ UNCHANGED <<config, settings, net, result, report, secure_mail, sends,
                   start_counter, probes, exit_reason>>

(* ------------------------------ the loop -------------------------------- *)
\* run_health_checks: let result = check_website_health(url).await
CheckWebsiteHealth ==
    /\ pc = "check"
    /\ idx <= Len(settings.urls)
    /\ \E n \in NetOutcomes :
         /\ net' = n
         /\ result' = check_website_health(n)
    /\ probes' = probes + 1
    /\ probed' = Append(probed, IterPosition(idx, Len(settings.urls)))
    /\ pc' = "insert"
    /\ NoPersist
    /\ UNCHANGED <<config, state, settings, idx, results, report, secure_mail,
                   sends, start_counter, cycle, cycle_sends, exit_reason>>

\* run_health_checks: results.insert(url.clone(), result); sleep(500ns).await
InsertResult ==
    /\ pc = "insert"
    /\ results' = insert(results,
                         settings.urls[IterPosition(idx, Len(settings.urls))],
                         result)
    /\ idx' = idx + 1
    /\ net' = NoNet
    /\ result' = NoNet
    /\ pc' = "check"
    /\ NoPersist
    /\ UNCHANGED <<probed, config, state, settings, report, secure_mail, sends,
                   start_counter, cycle, probes, cycle_sends,
                   exit_reason>>

\* run_health_checks returns; main.rs lines 60-65 render the report
GenerateReport ==
    /\ pc = "check"
    /\ idx > Len(settings.urls)
    /\ report' = generate_report(results)
    /\ pc' = "encrypt"
    /\ NoPersist
    /\ UNCHANGED <<probed, config, state, settings, idx, net, result, results,
                   secure_mail, sends, start_counter, cycle, probes,
                   cycle_sends, exit_reason>>

\* variant: the Err arm of EmailSecure::new lacks its return and falls
\* through to the rest of the iteration
EncryptFailed_NoReturn ==
    /\ \E t \in now..MaxTime, ok \in BOOLEAN :
         Persist([state EXCEPT !.error_log = Append(@, "EncryptError")],
                 t, ok, "update_state")
    /\ pc' = "send"
    /\ exit_reason' = exit_reason
    /\ UNCHANGED <<secure_mail>>

\* main.rs lines 67-78, EmailSecure::new returned Err
EncryptFailed ==
    /\ \E t \in now..MaxTime, ok \in BOOLEAN :
         Persist([state EXCEPT !.error_log = Append(@, "EncryptError")],
                 t, ok, "update_state")
    /\ pc' = "exited"
    /\ exit_reason' = "encrypt"
    /\ UNCHANGED <<secure_mail>>

\* main.rs lines 62-78: EmailSecure::new(email_data)
EncryptEmail ==
    /\ pc = "encrypt"
    /\ \/ /\ secure_mail' = report
          /\ pc' = "send"
          /\ NoPersist
          /\ UNCHANGED <<state, exit_reason>>
       \/ EncryptFailed
    /\ UNCHANGED <<probed, config, settings, idx, net, result, results, report,
                   sends,
                   start_counter, cycle, probes, cycle_sends>>

\* main.rs lines 80-84, send() returned Err
SendFailed ==
    /\ \E t \in now..MaxTime, ok \in BOOLEAN :
         Persist([state EXCEPT !.error_log = Append(@, "SendError")],
                 t, ok, "update_state")

\* variant: the Err arm of send() returns from main like the Err arm of
\* EmailSecure::new
SendEmail_ReturnOnFailure ==
    /\ pc = "send"
    /\ sends' = sends + 1
    /\ cycle_sends' = cycle_sends + 1
    /\ \/ /\ NoPersist
          /\ UNCHANGED state
          /\ pc' = "increment"
       \/ /\ SendFailed
          /\ pc' = "exited"
    /\ UNCHANGED <<probed, config, settings, idx, net, result, results, report,
                   secure_mail, start_counter, cycle, probes, exit_reason>>

\* variant: a failed send is tried once more before the iteration goes on
SendEmail_RetryOnce ==
    /\ pc = "send"
    /\ sends' = sends + 1
    /\ cycle_sends' = cycle_sends + 1
    /\ \/ /\ NoPersist
          /\ UNCHANGED state
          /\ pc' = "increment"
       \/ /\ SendFailed
          /\ pc' = IF cycle_sends = 0 THEN "send" ELSE "increment"
    /\ UNCHANGED <<probed, config, settings, idx, net, result, results, report,
                   secure_mail, start_counter, cycle, probes, exit_reason>>

\* main.rs lines 80-84: secure_mail.send()
SendEmail ==
    /\ pc = "send"
    /\ sends' = sends + 1
    /\ cycle_sends' = cycle_sends + 1
    /\ \/ /\ NoPersist
          /\ UNCHANGED state
       \/ SendFailed
    /\ pc' = "increment"
    /\ UNCHANGED <<probed, config, settings, idx, net, result, results, report,
                   secure_mail, start_counter, cycle, probes, exit_reason>>

\* variant: the counter is incremented in memory only, update_state is
\* left for the next iteration to call
IncrementCounter_NoPersist ==
    /\ pc = "increment"
    /\ state' = [state EXCEPT !.event_counter = @ + 1]
    /\ NoPersist
    /\ pc' = "sleep"
    /\ UNCHANGED <<probed, config, settings, idx, net, result, results, report,
                   secure_mail, sends, start_counter, cycle, probes,
                   cycle_sends, exit_reason>>

\* variant: the increment sits in the Ok arm of send(), skipped after a
\* failed send
IncrementCounter_OnlyAfterGoodSend ==
    /\ pc = "increment"
    /\ \E t \in now..MaxTime, ok \in BOOLEAN :
         Persist([state EXCEPT !.event_counter =
                      IF last_save.outcome = "none" THEN @ + 1 ELSE @],
                 t, ok, "update_state")
    /\ pc' = "sleep"
    /\ UNCHANGED <<probed, config, settings, idx, net, result, results, report,
                   secure_mail, sends, start_counter, cycle, probes,
                   cycle_sends, exit_reason>>

\* main.rs lines 86-87
IncrementCounter ==
    /\ pc = "increment"
    /\ \E t \in now..MaxTime, ok \in BOOLEAN :
         Persist([state EXCEPT !.event_counter = @ + 1], t, ok, "update_state")
    /\ pc' = "sleep"
    /\ UNCHANGED <<probed, config, settings, idx, net, result, results, report,
                   secure_mail, sends, start_counter, cycle, probes,
                   cycle_sends, exit_reason>>

\* variant: the result map and the report are declared outside the loop and
\* live on into the next iteration
Sleep_KeepResults ==
    /\ pc = "sleep"
    /\ cycle < MaxCycles
    /\ pc' = "check"
    /\ idx' = 1
    /\ cycle' = cycle + 1
    /\ cycle_sends' = 0
    /\ probed' = <<>>
    /\ NoPersist
    /\ UNCHANGED <<config, state, settings, net, result, results, report,
                   secure_mail, sends, start_counter, probes, exit_reason>>

\* main.rs line 88 and the return to the head of the loop
Sleep ==
    /\ pc = "sleep"
    /\ cycle < MaxCycles
    /\ pc' = "check"
    /\ idx' = 1
    /\ results' = EmptyResults
    /\ report' = NoReport
    /\ secure_mail' = NoReport
    /\ cycle' = cycle + 1
    /\ cycle_sends' = 0
    /\ probed' = <<>>
    /\ NoPersist
    /\ UNCHANGED <<config, state, settings, net, result, sends, start_counter,
                   probes, exit_reason>>

Next ==
    \/ GetConfig
    \/ LoadInitialState
    \/ LoadSettings
    \/ ConfigureLogging
    \/ Activate
    \/ CheckWebsiteHealth
    \/ InsertResult
    \/ GenerateReport
    \/ EncryptEmail
    \/ SendEmail
    \/ IncrementCounter
    \/ Sleep

Spec == Init /\ [][Next]_vars

\* main() is a sequential task: while a next statement exists it is executed
\* (every awaited call returns: the probe has a 30 s timeout)
LiveSpec == Init /\ [][Next]_vars /\ WF_vars(Next)


(* ------------------------------ claims ---------------------------------- *)
Loaded == state # NoState
InLoop == pc \in {"check", "insert", "encrypt", "send", "increment", "sleep"}
UrlSet == { settings.urls[i] : i \in 1..Len(settings.urls) }
UpUrls == { u \in DOMAIN results : results[u].status = "UP" }
DownUrls == { u \in DOMAIN results : results[u].status # "UP" }

\* C1: for every non-empty target list, the mapping returned by one run of
\* run_health_checks has exactly targets.length entries and the report
\* rendered from it has total_up + total_down == targets.length.
C1_ResultsSizeIsTargetsLength ==
    (pc = "encrypt" /\ Len(settings.urls) > 0) =>
        /\ Cardinality(DOMAIN results) = Len(settings.urls)
        /\ report.total_up + report.total_down = Len(settings.urls)

\* C2: after N completed cycles (send attempted) event_counter is its value
\* at process start plus N, whatever probes, sends or saves failed; it is
\* incremented exactly once per completed cycle.
C2_CounterIsStartPlusCycles ==
    /\ [](InLoop =>
            state.event_counter + (IF pc = "increment" THEN 1 ELSE 0)
                = start_counter + sends)
    /\ [][(Loaded /\ state'.event_counter # state.event_counter) =>
            /\ pc = "increment"
            /\ pc' = "sleep"
            /\ cycle_sends = 1
            /\ state'.event_counter = state.event_counter + 1]_vars

\* C2 witness: two cycles completed, with a DOWN probe, a failed send and a
\* failed save among them.
C2_Witness ==
    /\ pc = "sleep"
    /\ sends = 2
    /\ state.event_counter = start_counter + 2
    /\ DownUrls # {}
    /\ \E i \in 1..Len(state.error_log) : state.error_log[i] = "SendError"
    /\ ~saves_ok

\* C3: at every call site of save_state, a failed save leaves the in-memory
\* state with is_active == false and error_log exactly one entry longer than
\* before the call.
C3_FailedSaveMarksState ==
    last_save.outcome = "failed" =>
        /\ state.is_active = FALSE
        /\ Len(state.error_log) = last_save.pre_len + 1

\* C4: every mutation of the state is followed by a save_state call before
\* the next probe pass, notification, sleep or process exit, so when every
\* save succeeds the persisted record equals the in-memory record at each of
\* those points.
C4_PersistedEqualsMemory ==
    (Loaded /\ saves_ok /\ pc \in {"check", "encrypt", "send", "sleep", "exited"})
        => file = state


SaveAttempted == last_save.outcome # "none"
IsPrefix(a, b) == Len(a) <= Len(b) /\ SubSeq(b, 1, Len(a)) = a

\* C5: when constructing (encrypting) the notification fails, the error is
\* appended to error_log, the state is persisted and the process terminates:
\* no send is attempted in that cycle, event_counter is not incremented for
\* it, and no further probe pass ever starts.
C5_EncryptFailureIsFatal ==
    /\ [][(pc = "encrypt" /\ secure_mail' = NoReport) =>
            /\ pc' = "exited"
            /\ exit_reason' = "encrypt"
            /\ IsPrefix(Append(state.error_log, "EncryptError"),
                        state'.error_log)
            /\ SaveAttempted'
            /\ (last_save'.outcome = "ok" => file' = state')
            /\ state'.event_counter = state.event_counter
            /\ sends' = sends]_vars
    /\ [](exit_reason = "encrypt" =>
            /\ pc = "exited"
            /\ cycle_sends = 0
            /\ state.event_counter = start_counter + sends
            /\ sends = cycle - 1)
    /\ [][pc = "exited" => (pc' = "exited" /\ cycle' = cycle
                            /\ probes' = probes /\ sends' = sends)]_vars

\* C5 witness: the process has ended on an encryption failure in its second
\* cycle, after a pass that probed something.
C5_Witness ==
    /\ pc = "exited"
    /\ exit_reason = "encrypt"
    /\ cycle = 2
    /\ sends = 1
    /\ probes > 0
    /\ state.error_log[Len(state.error_log)] = "EncryptError"

\* C6: when sending the notification fails, the error is appended to
\* error_log and the state is persisted, the cycle still increments
\* event_counter and goes on to sleep and the next cycle, and the send is
\* never retried: every cycle makes at most one send attempt, and the next
\* cycle sends a report built from a new probe pass.
C6_SendFailureIsNotFatalNotRetried ==
    /\ [][(pc = "send" /\ state' # state) =>
            /\ IsPrefix(Append(state.error_log, "SendError"), state'.error_log)
            /\ SaveAttempted'
            /\ (last_save'.outcome = "ok" => file' = state')
            /\ state'.event_counter = state.event_counter]_vars
    /\ [][pc = "send" => (pc' = "increment" /\ cycle_sends' = 1
                          /\ sends' = sends + 1)]_vars
    /\ [][pc = "increment" =>
            (pc' = "sleep"
             /\ state'.event_counter = state.event_counter + 1)]_vars
    /\ [][pc = "sleep" =>
            (pc' = "check" /\ idx' = 1 /\ results' = EmptyResults
             /\ cycle' = cycle + 1 /\ cycle_sends' = 0)]_vars
    /\ [](InLoop => cycle_sends <= 1)
    /\ [](pc = "send" =>
            /\ cycle_sends = 0
            /\ cycle = sends + 1
            /\ probes = cycle * Len(settings.urls)
            /\ DOMAIN results = UrlSet
            /\ secure_mail = generate_report(results))

\* C6 witness: the second cycle is about to send, after the first cycle's
\* send failed and its counter increment was made.
C6_Witness ==
    /\ pc = "send"
    /\ cycle = 2
    /\ sends = 1
    /\ probes = 2 * Len(settings.urls)
    /\ Len(settings.urls) > 0
    /\ state.event_counter = start_counter + 1
    /\ \E i \in 1..Len(state.error_log) : state.error_log[i] = "SendError"
    /\ start_counter = 0

\* C7: on either startup-fatal error (configuration load failure, settings
\* parse failure) the cause is recorded to error_log of the operational state
\* and the process exits without entering the run loop: no probe runs, no
\* notification is constructed and event_counter is unchanged.
C7_StartupFatalRecorded ==
    (pc = "exited" /\ exit_reason \in {"config", "settings"}) =>
        /\ Loaded
        /\ Len(state.error_log) > 0
        /\ state.error_log[Len(state.error_log)] = "InvalidFile"
        /\ probes = 0
        /\ cycle = 0
        /\ sends = 0
        /\ secure_mail = NoReport
        /\ state.event_counter = start_counter

AllTimingsAbsent(r) ==
    is_none(r.dns_time_ms) /\ is_none(r.response_time_ms)
        /\ is_none(r.body_time_ms)

\* C8: a probe classifies from transport success only, in three ways:
\* request failure (or client build failure) gives DOWN with all three
\* timings absent and an error message; request success with body-read
\* failure gives DOWN with connect and total-response timings present, body
\* timing absent and an error message; request and body-read success gives
\* UP with all three timings present and no error message, whatever the
\* HTTP status code.
C8_ProbeClassification ==
    pc = "insert" =>
        /\ (~(net.client /\ net.send) =>
              /\ result.status = "DOWN"
              /\ AllTimingsAbsent(result)
              /\ is_some(result.error))
        /\ ((net.client /\ net.send /\ ~net.body) =>
              /\ result.status = "DOWN"
              /\ is_some(result.dns_time_ms)
              /\ is_some(result.response_time_ms)
              /\ is_none(result.body_time_ms)
              /\ is_some(result.error))
        /\ ((net.client /\ net.send /\ net.body) =>
              /\ result.status = "UP"
              /\ is_some(result.dns_time_ms)
              /\ is_some(result.response_time_ms)
              /\ is_some(result.body_time_ms)
              /\ is_none(result.error))

\* C8 witness: a probe whose response carried status 500 and a readable body
\* has just returned UP.
C8_Witness ==
    /\ pc = "insert"
    /\ net.client /\ net.send /\ net.body
    /\ net.http = 500
    /\ result.status = "UP"

ProbeResults ==
    (IF pc = "insert" THEN {result} ELSE {})
        \cup { results[u] : u \in DOMAIN results }

\* C9: every ProbeResult a probe can produce has staged timings present only
\* when status is UP, and error_message present only when status is DOWN.
C9_TimingsOnlyWhenUp ==
    \A r \in ProbeResults :
        /\ (~AllTimingsAbsent(r) => r.status = "UP")
        /\ (is_some(r.error) => r.status = "DOWN")

\* C9 as amended: every ProbeResult has body_read_time present only when
\* status is UP, connect_time and total_response_time present only when
\* status is UP or the result is the DOWN of a body-read failure (both
\* present, body_read_time absent), and error_message present only when
\* status is DOWN.
C9_TimingsOnlyWhenUpOrBodyFailure ==
    /\ \A r \in ProbeResults :
        /\ (is_some(r.body_time_ms) => r.status = "UP")
        /\ ((is_some(r.dns_time_ms) \/ is_some(r.response_time_ms)) =>
              \/ r.status = "UP"
              \/ /\ r.status = "DOWN"
                 /\ is_some(r.dns_time_ms)
                 /\ is_some(r.response_time_ms)
                 /\ is_none(r.body_time_ms))
        /\ (is_some(r.error) => r.status = "DOWN")
    /\ (pc = "insert" /\ result.status = "DOWN" /\ ~AllTimingsAbsent(result))
          => (net.send /\ ~net.body)

\* C9 witness: a probe whose body read failed has returned DOWN with its
\* connect and response timings.
C9_Witness ==
    /\ pc = "insert"
    /\ net.send /\ ~net.body
    /\ result.status = "DOWN"
    /\ is_some(result.dns_time_ms)
    /\ is_some(result.response_time_ms)
    /\ is_none(result.body_time_ms)

\* C10: for every result mapping, the empty one included, the summary of the
\* rendered report has total checked == results.size and total_up +
\* total_down == total checked, an entry counting as UP exactly when its
\* status is UP and as DOWN otherwise.
C10_SummaryCounts ==
    report # NoReport =>
        /\ report.total = Cardinality(DOMAIN results)
        /\ report.total_up + report.total_down = report.total
        /\ report.total_up = Cardinality(UpUrls)
        /\ report.total_down = Cardinality(DownUrls)
        /\ Cardinality(report.sections) = report.total

\* C10 witness: a report rendered from one UP entry and one DOWN entry that
\* still carries request timings.
C10_Witness ==
    /\ report # NoReport
    /\ report.total = 2
    /\ report.total_up = 1
    /\ report.total_down = 1
    /\ \E u \in DownUrls : is_some(results[u].dns_time_ms)

\* C11: loading state at startup: when the persisted file is missing or
\* unreadable a fresh state with is_active = false, event_counter = 0 and an
\* empty error log is constructed and immediately handed to save_state; when
\* the file is read, the deserialized state is returned unchanged, so
\* event_counter and error_log continue from their persisted values.
C11_LoadFreshOrUnchanged ==
    /\ [][pc = "load_initial_state" =>
            /\ pc' = "load_settings"
            /\ (file = NoFile => SaveAttempted')
            /\ (~SaveAttempted' => (state' = file /\ file' = file))
            /\ (SaveAttempted' =>
                  /\ state'.is_active = FALSE
                  /\ state'.event_counter = 0
                  /\ state'.error_log = <<>>
                  /\ state'.last_updated = now'
                  /\ last_save'.site = "load_initial_state"
                  /\ (last_save'.outcome = "ok" => file' = state'))
            /\ start_counter' = state'.event_counter]_vars
    /\ []((pc = "load_settings" /\ ~SaveAttempted) =>
            /\ state.event_counter = file.event_counter
            /\ state.error_log = file.error_log
            /\ state.is_active = file.is_active)

\* C11 witness: a state file of an earlier run was read back, counter and
\* error log included.
C11_Witness ==
    /\ pc = "load_settings"
    /\ ~SaveAttempted
    /\ state = file
    /\ state.event_counter = MaxStartCounter
    /\ Len(state.error_log) = 1

\* C12: once the run loop is entered the only reachable terminal state is the
\* exit on notification encryption failure: a probe failure, a send failure
\* or a persistence failure never terminates the process, and as long as no
\* encryption failure occurs every cycle is eventually followed by another
\* cycle (up to the MaxCycles iterations explored).
C12_OnlyEncryptFailureTerminates ==
    /\ [][(InLoop /\ pc' = "exited") =>
            /\ pc = "encrypt"
            /\ secure_mail' = NoReport
            /\ exit_reason' = "encrypt"]_vars
    /\ []((pc = "exited" /\ cycle >= 1) => exit_reason = "encrypt")
    /\ []((InLoop /\ ~(pc = "sleep" /\ cycle = MaxCycles)) => ENABLED Next)
    /\ \A k \in 1..(MaxCycles - 1) :
          (InLoop /\ cycle = k) ~>
              ((pc = "check" /\ idx = 1 /\ cycle = k + 1)
                  \/ exit_reason = "encrypt")

\* C12 witness: a second cycle has started although the first one saw a DOWN
\* probe, a failed send and a failed save.
C12_Witness ==
    /\ pc = "check"
    /\ idx = 1
    /\ cycle = 2
    /\ sends = 1
    /\ ~saves_ok
    /\ state.is_active = FALSE
    /\ \E i \in 1..Len(state.error_log) : state.error_log[i] = "SendError"
    /\ exit_reason = "none"

\* the targets whose result the current pass has inserted so far
InsertedSoFar == { settings.urls[i] : i \in 1..(idx - 1) }

\* C13: in every cycle the body of the notification constructed is exactly
\* the report rendered from the result mapping of that same cycle's probe
\* pass: no probe result or report of an earlier cycle is retained or
\* reused, and each report is used for exactly one notification.
C13_BodyIsThisCyclesReport ==
    /\ [][(secure_mail' # secure_mail /\ secure_mail' # NoReport) =>
            /\ pc = "encrypt"
            /\ secure_mail = NoReport
            /\ secure_mail' = report
            /\ report = generate_report(results)
            /\ DOMAIN results = UrlSet
            /\ probes = cycle * Len(settings.urls)
            /\ sends = cycle - 1]_vars
    /\ [][(report' # report /\ report' # NoReport) =>
            /\ pc = "check"
            /\ report = NoReport
            /\ secure_mail = NoReport
            /\ report' = generate_report(results)]_vars
    /\ [](pc \in {"check", "insert"} =>
            /\ DOMAIN results = InsertedSoFar
            /\ report = NoReport
            /\ secure_mail = NoReport)
    /\ [](pc \in {"send", "increment", "sleep"} =>
            /\ secure_mail = report
            /\ report = generate_report(results)
            /\ sends <= cycle)

\* C13 witness: the second cycle holds a notification whose body is the
\* report of its own pass, one target UP and one DOWN.
C13_Witness ==
    /\ pc = "send"
    /\ cycle = 2
    /\ secure_mail = generate_report(results)
    /\ secure_mail.total_up = 1
    /\ secure_mail.total_down = 1
    /\ probes = 4

SectionSet(text) == { text.lines[i] : i \in 1..Len(text.lines) }
Counts(text) == <<text.total, text.total_up, text.total_down>>

\* C14: report rendering is deterministic in its input: rendering the same
\* result mapping twice, whatever order the map iterator takes each time,
\* gives the same set of per-URL sections and the same summary counts,
\* whatever the operational state and the earlier cycles (the order of the
\* sections is not compared).
C14_RenderingIgnoresIterationOrder ==
    /\ \A o1, o2 \in IterationOrders(DOMAIN results) :
          /\ SectionSet(render(results, o1)) = SectionSet(render(results, o2))
          /\ Counts(render(results, o1)) = Counts(render(results, o2))
    /\ report # NoReport =>
          \A o \in IterationOrders(DOMAIN results) :
              /\ report.sections = SectionSet(render(results, o))
              /\ Counts(report) = Counts(render(results, o))

\* C14 witness: a report of the second cycle, rendered from an UP and a DOWN
\* entry (two iteration orders, with different section orders), in a process
\* whose state has changed since the first cycle.
C14_Witness ==
    /\ report # NoReport
    /\ cycle = 2
    /\ Cardinality(UpUrls) = 1
    /\ Cardinality(DownUrls) = 1
    /\ \E o1, o2 \in IterationOrders(DOMAIN results) :
          render(results, o1).lines # render(results, o2).lines
    /\ state.event_counter = start_counter + 1

\* the order of the statements of one loop iteration
StepOrder ==
    { <<"check", "insert">>, <<"insert", "check">>, <<"check", "encrypt">>,
      <<"encrypt", "send">>, <<"encrypt", "exited">>, <<"send", "increment">>,
      <<"increment", "sleep">>, <<"sleep", "check">> }

\* C15: each iteration performs its steps in the fixed order probe pass,
\* report rendering, notification construction and send, event_counter
\* increment with persist, sleep; an iteration runs to completion before the
\* next one starts, so no probe of cycle k+1 starts before the counter
\* increment of cycle k has been handed to save_state and the sleep has
\* ended.
C15_IterationStepOrder ==
    /\ [][InLoop => <<pc, pc'>> \in StepOrder]_vars
    /\ [][(pc = "check" /\ pc' = "encrypt") =>
            /\ idx = Len(settings.urls) + 1
            /\ probes = cycle * Len(settings.urls)
            /\ report' = generate_report(results)]_vars
    /\ [][pc = "increment" =>
            /\ state'.event_counter = state.event_counter + 1
            /\ SaveAttempted'
            /\ (last_save'.outcome = "ok" =>
                  file'.event_counter = state'.event_counter)]_vars
    /\ [][(InLoop /\ cycle' # cycle) =>
            /\ pc = "sleep"
            /\ pc' = "check"
            /\ idx' = 1
            /\ cycle' = cycle + 1]_vars
    /\ [](pc = "sleep" =>
            /\ SaveAttempted
            /\ state.event_counter = start_counter + cycle
            /\ sends = cycle)
    /\ [](pc \in {"check", "insert"} =>
            /\ state.event_counter = start_counter + cycle - 1
            /\ sends = cycle - 1
            /\ probes >= (cycle - 1) * Len(settings.urls)
            /\ probes <= cycle * Len(settings.urls))

\* C15 witness: the first probe of the second cycle has been made, after the
\* first cycle's increment reached the state file.
C15_Witness ==
    /\ pc = "insert"
    /\ cycle = 2
    /\ idx = 1
    /\ probes = Len(settings.urls) + 1
    /\ state.event_counter = start_counter + 1
    /\ file # NoFile
    /\ file.event_counter = state.event_counter

\* the positions 1..n in list order
InOrder(n) == [i \in 1..n |-> i]

\* C16: one run of run_health_checks probes every position of the target
\* list exactly once, one at a time and in list order (the probe of target
\* i+1 starts only after the result of target i has been inserted), and
\* returns only after the last target has been probed; it terminates when
\* every probe terminates.
C16_RunnerSequentialInOrder ==
    /\ [](pc \in {"check", "insert"} =>
            /\ probed = InOrder(Len(probed))
            /\ Len(probed) = (IF pc = "insert" THEN idx ELSE idx - 1)
            /\ DOMAIN results = InsertedSoFar)
    /\ [][(probed' # probed /\ probed' # <<>>) =>
            /\ pc = "check"
            /\ pc' = "insert"
            /\ idx <= Len(settings.urls)
            /\ probed' = Append(probed, idx)
            /\ DOMAIN results = InsertedSoFar
            /\ results' = results]_vars
    /\ [][pc = "insert" =>
            /\ pc' = "check"
            /\ results' = insert(results, settings.urls[idx], result)
            /\ idx' = idx + 1
            /\ probed' = probed]_vars
    /\ [][(pc = "check" /\ pc' # "insert") =>
            /\ pc' = "encrypt"
            /\ probed = InOrder(Len(settings.urls))]_vars
    /\ [](pc = "encrypt" =>
            /\ probed = InOrder(Len(settings.urls))
            /\ DOMAIN results = UrlSet)
    /\ (pc \in {"check", "insert"}) ~> (pc = "encrypt")

\* C16 witness: a pass over two targets has returned, with both positions
\* probed in order and a failed probe among them.
C16_Witness ==
    /\ pc = "encrypt"
    /\ Len(settings.urls) = 2
    /\ probed = <<1, 2>>
    /\ results[settings.urls[1]].status = "DOWN"
    /\ Cardinality(DOMAIN results) = 2

\* C17: within a run error_log is append-only: after load no step removes,
\* reorders or changes an existing entry, so the error_log of every earlier
\* state is a prefix of the error_log of every later state.
C17_ErrorLogAppendOnly ==
    [][Loaded =>
         /\ Loaded'
         /\ IsPrefix(state.error_log, state'.error_log)
         /\ Len(state'.error_log) <= Len(state.error_log) + 2]_vars

\* C17 witness: the log read from the state file has grown by a send error
\* and by the save failure that followed it.
C17_Witness ==
    /\ Loaded
    /\ InLoop
    /\ Len(state.error_log) >= 3
    /\ state.error_log[1] = "SendError"
    /\ \E i \in 2..(Len(state.error_log) - 1) :
          /\ state.error_log[i] = "SendError"
          /\ state.error_log[i + 1] = "GeneralError"

\* C18: once the run loop has been entered, in-memory is_active changes only
\* from true to false and only in a step where save_state failed; it is never
\* set back to true, so after a failed save inside the loop is_active stays
\* false in every later state and in every record persisted later, even when
\* all later saves succeed.
C18_ActiveFlagOnlyFallsInLoop ==
    /\ [][(InLoop /\ state'.is_active # state.is_active) =>
            /\ state.is_active = TRUE
            /\ state'.is_active = FALSE
            /\ last_save'.outcome = "failed"]_vars
    /\ [][(InLoop /\ last_save'.outcome = "failed") =>
            state'.is_active = FALSE]_vars
    /\ [][(InLoop /\ state.is_active = FALSE) =>
            /\ state'.is_active = FALSE
            /\ (file' # file => (file' = state' /\ file'.is_active = FALSE))]_vars

\* C18 witness: the loop was entered active (fresh state, startup saves all
\* succeeded), the save after a failed send failed, and the later save of the
\* counter increment succeeded: flag and persisted record are inactive.
C18_Witness ==
    /\ pc = "sleep"
    /\ start_counter = 0
    /\ state.error_log = <<"SendError", "GeneralError">>
    /\ last_save.outcome = "ok"
    /\ state.is_active = FALSE
    /\ file = state

\* C19: at the moment the run loop is entered, in-memory is_active is true
\* exactly when the last startup persist (the one made right after marking
\* is_active = true) succeeded: a save failure in the earlier
\* logging-configuration persist is overwritten by the unconditional
\* is_active = true assignment and leaves only its error_log entry behind.
C19_ActiveAtLoopEntry ==
    /\ [][pc = "configure_logging" =>
            /\ pc' = "activate"
            /\ SaveAttempted'
            /\ (last_save'.outcome = "failed" =>
                  /\ state'.is_active = FALSE
                  /\ state'.error_log = Append(state.error_log,
                                               "GeneralError"))]_vars
    /\ [][pc = "activate" =>
            /\ pc' = "check"
            /\ SaveAttempted'
            /\ (state'.is_active <=> last_save'.outcome = "ok")
            /\ (last_save'.outcome = "ok" =>
                  /\ file' = state'
                  /\ state'.error_log = state.error_log)
            /\ (last_save'.outcome = "failed" =>
                  state'.error_log = Append(state.error_log, "GeneralError"))
          ]_vars

\* C19 witness: the loop is entered active, from a fresh state whose only
\* error_log entry is the failed save of configure_logging.
C19_Witness ==
    /\ pc = "check"
    /\ cycle = 1
    /\ idx = 1
    /\ probes = 0
    /\ start_counter = 0
    /\ last_save.outcome = "ok"
    /\ state.is_active = TRUE
    /\ state.error_log = <<"GeneralError">>
    /\ file = state

====
